---- MODULE Spec2Model ----
(***************************************************************************)
(* SpeedySpeech (src/TTS/tts/models/speedy_speech.py): the duration-based  *)
(* alignment of a non-autoregressive text-to-speech model.                 *)
(*                                                                         *)
(* Tensors are sequences indexed from 1: a batch is a sequence of items,   *)
(* an item a sequence over tokens or frames.  Learned layers (embedding,   *)
(* encoder, duration predictor, decoder) are kept to what the module's     *)
(* own code relies on: their shapes, their masks and the order in which    *)
(* they are called.  The duration predictor's output is an input of the    *)
(* model, drawn from LogVals.                                              *)
(*                                                                         *)
(* Numbers: a log-duration k stands for k*ln(2), so exp is the exact power *)
(* of two 2^k; length_scale is counted in halves; format_durations works   *)
(* in sixteenths, which makes every product of the model exact.            *)
(***************************************************************************)
EXTENDS Integers, Sequences, FiniteSets, TLC

VARIABLES cfg, pc, call, out

vars == <<cfg, pc, call, out>>

----------------------------------------------------------------------------
(* Bounds of the model *)

\* widths x.shape[1] of the token batch handed to forward / inference
TVals == {1, 2}
\* widths of the tensors format_durations is called with directly
MaxT == 2
\* the two items of a batch
Batch == {1, 2}
\* largest ground-truth duration of one token (training)
MaxDur == 1
\* largest supplied output length y_lengths[b] (training)
MaxY == 2
\* predicted log-durations, in units of ln 2; VeryNeg: exp() rounds to 0
VeryNeg == 0 - 30
LogVals == {VeryNeg, 1, 2}
\* the wider set format_durations is called with directly
LogValsWide == {VeryNeg, 0 - 1, 0, 1, 2, 3}
\* length_scale in halves: 1.0 and 1.5 ; and the wider set
Scales == {2, 3}
ScalesWide == {0 - 2, 0, 1, 2, 3, 5}

\* trailing positions inference appends to x
PadLen == 5

\* an absent optional argument (None) is the empty sequence, a present one <<v>>
None == <<>>
Some(v) == <<v>>

\* the learned speaker table emb_g and the externally supplied speaker vectors;
\* vector entries are counted in fifths, so <<3, 4>> has norm 1
EmbG == [id \in {0, 1} |-> IF id = 0 THEN <<6, 8>> ELSE <<0, 15>>]
ExternalVecs == {<<6, 8>>}

----------------------------------------------------------------------------
(* Helpers on sequences *)

RECURSIVE SumSeq(_)
SumSeq(s) == IF s = <<>> THEN 0 ELSE s[1] + SumSeq(Tail(s))

\* sum of s[1..n]
CumSum(s, n) == SumSeq(SubSeq(s, 1, n))

MaxOf(S) == CHOOSE m \in S : \A n \in S : n <= m

Range(s) == {s[i] : i \in DOMAIN s}

RECURSIVE ISqrt(_, _)
ISqrt(n, r) == IF (r + 1) * (r + 1) > n THEN r ELSE ISqrt(n, r + 1)

----------------------------------------------------------------------------
(* Collaborators of the module that live outside speedy_speech.py *)

\* TTS.tts.utils.generic_utils.sequence_mask: position j is valid iff below the length;
\* max_len = None takes the largest length of the batch
sequence_mask(sequence_length, max_len) ==
    LET n == IF max_len = None THEN MaxOf(Range(sequence_length)) ELSE max_len[1]
    IN  [b \in DOMAIN sequence_length |->
            [j \in 1..n |-> IF j <= sequence_length[b] THEN 1 ELSE 0]]

\* TTS.tts.layers.glow_tts.monotonic_align.generate_path: token i takes the frames
\* from the cumulated duration of the tokens before it up to its own, times the mask
generate_path(duration, mask) ==
    [b \in DOMAIN duration |->
        LET cum_duration == [i \in 0..Len(duration[b]) |-> CumSum(duration[b], i)]
        IN  [i \in DOMAIN duration[b] |->
                [j \in DOMAIN mask[b][i] |->
                    ((IF j <= cum_duration[i] THEN 1 ELSE 0)
                      - (IF j <= cum_duration[i - 1] THEN 1 ELSE 0))
                    * mask[b][i][j]]]]

\* Encoder: one feature per token, zero at masked positions
Encoder(x_emb, x_mask) ==
    [b \in DOMAIN x_emb |-> [i \in DOMAIN x_emb[b] |-> x_emb[b][i] * x_mask[b][i]]]

\* Decoder: keeps the frame axis, zero at masked frames
Decoder(o_en_ex, y_mask) ==
    [b \in DOMAIN o_en_ex |-> [j \in DOMAIN o_en_ex[b] |-> o_en_ex[b][j] * y_mask[b][j]]]

\* squared norm of a vector, in twenty-fifths
SqNorm(v) == SumSeq([k \in DOMAIN v |-> v[k] * v[k]])

\* nn.functional.normalize: v / max(||v||, eps), entries in fifths
Normalize(v) ==
    LET n == ISqrt(SqNorm(v), 0)
    IN  IF n = 0 THEN v ELSE [k \in DOMAIN v |-> (v[k] * 5) \div n]

----------------------------------------------------------------------------
(* SpeedySpeech *)

\* the speaker table built for any positive number of speakers
Construct_AnySpeaker(num_speakers, external_c, positional_encoding, length_scale) ==
    [num_speakers |-> num_speakers,
     external_c   |-> external_c,
     length_scale |-> length_scale,
     pos_encoder  |-> positional_encoding,
     emb_g        |-> (num_speakers > 0 /\ ~external_c)]

\* __init__: the attributes the forward code tests with hasattr
Construct(num_speakers, external_c, positional_encoding, length_scale) ==
    [num_speakers |-> num_speakers,
     external_c   |-> external_c,
     length_scale |-> length_scale,
     pos_encoder  |-> positional_encoding,
     emb_g        |-> (num_speakers > 1 /\ ~external_c)]

Transpose(m, nrows, ncols) ==
    [j \in 1..ncols |-> [i \in 1..nrows |-> m[i][j]]]

\* the attention mask built from the token mask alone
expand_encoder_outputs_NoYMask(en, dr, x_mask, y_mask) ==
    LET attn_mask == [b \in DOMAIN x_mask |->
                        [i \in DOMAIN x_mask[b] |->
                            [j \in DOMAIN y_mask[b] |-> x_mask[b][i]]]]
        attn == generate_path(dr, attn_mask)
        o_en_ex == [b \in DOMAIN attn |->
                      [j \in DOMAIN y_mask[b] |->
                          SumSeq([i \in DOMAIN en[b] |-> attn[b][i][j] * en[b][i]])]]
    IN  [o_en_ex |-> o_en_ex, attn |-> attn]

\* the attention mask built from the frame mask alone
expand_encoder_outputs_NoXMask(en, dr, x_mask, y_mask) ==
    LET attn_mask == [b \in DOMAIN x_mask |->
                        [i \in DOMAIN x_mask[b] |->
                            [j \in DOMAIN y_mask[b] |-> y_mask[b][j]]]]
        attn == generate_path(dr, attn_mask)
        o_en_ex == [b \in DOMAIN attn |->
                      [j \in DOMAIN y_mask[b] |->
                          SumSeq([i \in DOMAIN en[b] |-> attn[b][i][j] * en[b][i]])]]
    IN  [o_en_ex |-> o_en_ex, attn |-> attn]

expand_encoder_outputs(en, dr, x_mask, y_mask) ==
    LET attn_mask == [b \in DOMAIN x_mask |->
                        [i \in DOMAIN x_mask[b] |->
                            [j \in DOMAIN y_mask[b] |-> x_mask[b][i] * y_mask[b][j]]]]
        attn == generate_path(dr, attn_mask)
        o_en_ex == [b \in DOMAIN attn |->
                      [j \in DOMAIN y_mask[b] |->
                          SumSeq([i \in DOMAIN en[b] |-> attn[b][i][j] * en[b][i]])]]
    IN  [o_en_ex |-> o_en_ex, attn |-> attn]

\* exp(k ln 2) in eighths; below 2^-3 only VeryNeg is used, where exp()-1 is -1 in floats
Exp8(k) == IF k < 0 - 3 THEN 0 ELSE 2 ^ (k + 3)

\* torch.round of v16 sixteenths: to the nearest integer, a half to the even one
Round16(v16) ==
    LET q == v16 \div 16
        r == v16 % 16
    IN  IF r < 8 THEN q
        ELSE IF r > 8 THEN q + 1
        ELSE IF q % 2 = 0 THEN q ELSE q + 1

\* the clamp left out
Clamp16_Skipped(v16) == v16

\* the in-place clamp o_dr[o_dr < 1] = 1.0
Clamp16(v16) == IF v16 < 16 THEN 16 ELSE v16

\* the mask applied after the clamp instead of before it
format_durations_MaskLast(length_scale, o_dr_log, x_mask) ==
    [b \in DOMAIN o_dr_log |->
        [i \in DOMAIN o_dr_log[b] |->
            Round16(Clamp16((Exp8(o_dr_log[b][i]) - 8) * length_scale)) * x_mask[b][i]]]

format_durations(length_scale, o_dr_log, x_mask) ==
    [b \in DOMAIN o_dr_log |->
        [i \in DOMAIN o_dr_log[b] |->
            Round16(Clamp16((Exp8(o_dr_log[b][i]) - 8) * x_mask[b][i] * length_scale))]]

\* stages of a call, in call order: the layer and the tensor it is given
Stage(op, arg) == [op |-> op, arg |-> arg]

_concat_speaker_embedding(o_en, g) == [feat |-> o_en, g |-> g]

_forward_encoder(c, x, x_lengths, g) ==
    LET err   == c.emb_g /\ g = None
        g1    == IF c.emb_g /\ g # None
                 THEN Some([b \in DOMAIN g[1] |-> Normalize(EmbG[g[1][b]])])
                 ELSE g
        x_emb == x
        x_mask == sequence_mask(x_lengths, Some(Len(x[1])))
        o_en  == Encoder(x_emb, x_mask)
        o_en_dp == IF g1 # None THEN _concat_speaker_embedding(o_en, g1)
                   ELSE [feat |-> o_en, g |-> None]
    IN  [err |-> err, o_en |-> o_en, o_en_dp |-> o_en_dp, x_mask |-> x_mask, g |-> g1,
         trace |-> (IF c.emb_g THEN <<Stage("emb_g", "g")>> ELSE <<>>)
                   \o <<Stage("emb", "x"), Stage("encoder", "x_emb")>>
                   \o (IF g1 # None THEN <<Stage("concat_speaker", "o_en")>> ELSE <<>>)]

\* positional encoding applied to the encoder output, before the expansion
DecoderStages_PosFirst(c, g) ==
    (IF c.pos_encoder THEN <<Stage("pos_encoder", "o_en")>> ELSE <<>>)
    \o <<Stage("expand", "o_en")>>
    \o (IF g # None THEN <<Stage("sum_speaker", "o_en_ex")>> ELSE <<>>)
    \o <<Stage("decoder", "o_en_ex")>>

\* the layers _forward_decoder calls, in call order
DecoderStages(c, g) ==
    <<Stage("expand", "o_en")>>
    \o (IF c.pos_encoder THEN <<Stage("pos_encoder", "o_en_ex")>> ELSE <<>>)
    \o (IF g # None THEN <<Stage("sum_speaker", "o_en_ex")>> ELSE <<>>)
    \o <<Stage("decoder", "o_en_ex")>>

_forward_decoder(c, o_en, o_en_dp, dr, x_mask, y_lengths, g) ==
    LET y_mask == sequence_mask(y_lengths, None)
        ex     == expand_encoder_outputs(o_en, dr, x_mask, y_mask)
        T_en   == Len(x_mask[1])
        T_de   == Len(y_mask[1])
    IN  [o_de |-> Decoder(ex.o_en_ex, y_mask),
         attn |-> [b \in DOMAIN ex.attn |-> Transpose(ex.attn[b], T_en, T_de)],
         y_mask |-> y_mask,
         o_en_ex |-> ex.o_en_ex,
         dec_g |-> g,
         trace |-> DecoderStages(c, g)]

\* the predicted durations used in training too
ForwardDurations_Predicted(dr, o_dr_log, x_mask) == format_durations(2, o_dr_log, x_mask)

\* the durations forward hands to the decoder path
ForwardDurations(dr, o_dr_log, x_mask) == dr

forward(c, x, x_lengths, y_lengths, dr, g, predicted) ==
    LET en == _forward_encoder(c, x, x_lengths, g)
        o_dr_log == predicted
        de == _forward_decoder(c, en.o_en, en.o_en_dp,
                               ForwardDurations(dr, o_dr_log, en.x_mask),
                               en.x_mask, y_lengths, en.g)
    IN  [err |-> en.err,
         ret |-> <<"o_de", "o_dr_log", "attn">>,
         o_de |-> de.o_de, o_dr_log |-> o_dr_log, attn |-> de.attn,
         x |-> x, x_mask |-> en.x_mask, y_mask |-> de.y_mask, y_lengths |-> y_lengths,
         dr |-> dr, o_en |-> en.o_en, o_en_ex |-> de.o_en_ex,
         dp_in |-> en.o_en_dp, dec_g |-> de.dec_g,
         trace |-> en.trace \o <<Stage("duration_predictor", "o_en_dp.detach")>> \o de.trace]

\* the input left as it is
PadInput_None(x) == x

\* torch.nn.functional.pad(x, pad=(0, 5), value=0)
PadInput(x) == [b \in DOMAIN x |-> x[b] \o [k \in 1..PadLen |-> 0]]

\* the output length taken over the valid tokens only
InferredLengths_ValidOnly(o_dr, x_mask) ==
    [b \in DOMAIN o_dr |-> SumSeq([i \in DOMAIN o_dr[b] |-> o_dr[b][i] * x_mask[b][i]])]

\* y_lengths = o_dr.sum(1)
InferredLengths(o_dr, x_mask) == [b \in DOMAIN o_dr |-> SumSeq(o_dr[b])]

inference(c, x, x_lengths, g, predicted) ==
    LET xp == PadInput(x)
        en == _forward_encoder(c, xp, x_lengths, g)
        o_dr_log == predicted
        o_dr == format_durations(c.length_scale, o_dr_log, en.x_mask)
        y_lengths == InferredLengths(o_dr, en.x_mask)
        de == _forward_decoder(c, en.o_en, en.o_en_dp, o_dr, en.x_mask, y_lengths, en.g)
    IN  [err |-> en.err,
         ret |-> <<"o_de", "attn">>,
         o_de |-> de.o_de, o_dr_log |-> o_dr_log, attn |-> de.attn,
         x |-> xp, x_mask |-> en.x_mask, y_mask |-> de.y_mask, y_lengths |-> y_lengths,
         dr |-> o_dr, o_en |-> en.o_en, o_en_ex |-> de.o_en_ex,
         dp_in |-> en.o_en_dp, dec_g |-> de.dec_g,
         trace |-> en.trace
                   \o <<Stage("duration_predictor", "o_en_dp.detach"),
                        Stage("format_durations", "o_dr_log")>>
                   \o de.trace]

----------------------------------------------------------------------------
(* The state machine: a constructed module, then one call.  A call leaves no *)
(* state behind but its results, so one call per behaviour covers them all.  *)

NoCall == [op |-> "none"]
NoOut == [err |-> FALSE, ret |-> <<>>]

\* token ids of a batch of width T: ids 1..length, then the padding id 0
Tokens(T, x_lengths) ==
    [b \in Batch |-> [i \in 1..T |-> IF i <= x_lengths[b] THEN i ELSE 0]]

\* the speaker argument g of a call: absent, or one entry per item
\* (speaker ids for the table, vectors otherwise)
GInputs(c) ==
    {None} \cup (IF c.emb_g THEN {Some([b \in Batch |-> b - 1])}
                 ELSE {Some([b \in Batch |-> v]) : v \in ExternalVecs})

\* outputs of the duration predictor: free at the valid positions, one value at
\* the padded positions of the batch
Predictions(T_en, x_lengths, T, Logs) ==
    {[b \in Batch |-> [i \in 1..T_en |-> IF i <= x_lengths[b] THEN val[b][i] ELSE pad]] :
        val \in [Batch -> [1..T -> Logs]], pad \in Logs}

\* and the same value everywhere
UniformPredictions(T_en, Logs) ==
    {[b \in Batch |-> [i \in 1..T_en |-> v]] : v \in Logs}

\* the constructor's defaults (num_speakers=0, external_c=False, positional_encoding=True)
DefaultConfigs(Ls) == {Construct(0, FALSE, TRUE, ls) : ls \in Ls}

AllConfigs ==
    {Construct(ns, ext, pe, ls) :
        ns \in {0, 1, 2}, ext \in BOOLEAN, pe \in BOOLEAN, ls \in Scales}

InitWith(Cs) ==
    /\ cfg \in Cs
    /\ pc = "idle"
    /\ call = NoCall
    /\ out = NoOut

Finish(r) ==
    /\ pc' = IF r.err THEN "error" ELSE "done"
    /\ out' = IF r.err THEN [err |-> TRUE, ret |-> <<>>] ELSE r

\* forward(x, x_lengths, y_lengths, dr, g)
Forward(Ts, Durs, Ys, Logs) ==
    /\ pc = "idle"
    /\ \E T \in Ts :
        \E x_lengths \in [Batch -> 1..T], y_lengths \in [Batch -> Ys],
           dr \in [Batch -> [1..T -> Durs]], g \in GInputs(cfg),
           predicted \in UniformPredictions(T, Logs) :
            /\ call' = [op |-> "forward", T |-> T, x_lengths |-> x_lengths,
                        y_lengths |-> y_lengths, dr |-> dr, g |-> g]
            /\ Finish(forward(cfg, Tokens(T, x_lengths), x_lengths, y_lengths, dr, g,
                              predicted))
    /\ UNCHANGED cfg

\* inference(x, x_lengths, g)
Inference(Ts, Logs) ==
    /\ pc = "idle"
    /\ \E T \in Ts :
        \E x_lengths \in [Batch -> 1..T], g \in GInputs(cfg) :
        \E predicted \in Predictions(Len(PadInput(Tokens(T, x_lengths))[1]), x_lengths, T, Logs) :
            /\ call' = [op |-> "inference", T |-> T, x_lengths |-> x_lengths, g |-> g]
            /\ Finish(inference(cfg, Tokens(T, x_lengths), x_lengths, g, predicted))
    /\ UNCHANGED cfg

\* format_durations(o_dr_log, x_mask) called on its own
FormatDurations ==
    /\ pc = "idle"
    /\ \E T \in 1..MaxT :
        \E x_lengths \in [{1} -> 0..T], o_dr_log \in [{1} -> [1..T -> LogValsWide]] :
            LET x_mask == sequence_mask(x_lengths, Some(T))
            IN  /\ call' = [op |-> "format_durations", T |-> T, x_lengths |-> x_lengths]
                /\ out' = [err |-> FALSE, ret |-> <<"o_dr">>, o_dr_log |-> o_dr_log,
                           x_mask |-> x_mask,
                           dr |-> format_durations(cfg.length_scale, o_dr_log, x_mask)]
                /\ pc' = "done"
    /\ UNCHANGED cfg

\* Calls on a model built with the constructor's defaults, over every duration input
Init == InitWith(DefaultConfigs(Scales))
Next == Forward(TVals, 0..MaxDur, 1..MaxY, LogVals) \/ Inference(TVals, LogVals)
Spec == Init /\ [][Next]_vars

\* Calls on every configuration of speakers and positional encoding
InitSpeaker == InitWith(AllConfigs)
NextSpeaker == Forward(TVals, {1}, {1, 2}, {1}) \/ Inference(TVals, {1})
SpecSpeaker == InitSpeaker /\ [][NextSpeaker]_vars

\* format_durations on its own, over the wide sets of log-durations and scales
InitFormat == InitWith(DefaultConfigs(ScalesWide))
NextFormat == FormatDurations
SpecFormat == InitFormat /\ [][NextFormat]_vars

----------------------------------------------------------------------------
(* What the claims speak of.  The alignment a call returns is attn          *)
(* transposed: out.attn[b][j][i] aligns frame j to token i.                 *)

Returned(op) == pc = "done" /\ call.op = op

Items == DOMAIN out.dr
TokensOf(b) == DOMAIN out.x_mask[b]
FramesOf(b) == DOMAIN out.attn[b]

\* frames aligned to token i, and tokens aligned to frame j
TokenSum(b, i) == SumSeq([j \in FramesOf(b) |-> out.attn[b][j][i]])
FrameSum(b, j) == SumSeq(out.attn[b][j])

ValidTokens(b) == {i \in TokensOf(b) : out.x_mask[b][i] = 1}
PaddedTokens(b) == {i \in TokensOf(b) : out.x_mask[b][i] = 0}

\* the block of frames the durations give token i
Block(b, i) == {j \in FramesOf(b) : CumSum(out.dr[b], i - 1) < j /\ j <= CumSum(out.dr[b], i)}

\* C1 as stated: for every item with non-negative durations (the masks are always
\* derived from lengths), the alignment expand_encoder_outputs returns is binary and
\* monotonic: token i is aligned to exactly its block of duration[i] frames that
\* starts at the cumulated durations of the tokens before it, so its sum over the
\* frames is duration[i]
C1_AlignmentFollowsDurations ==
    (Returned("forward") \/ Returned("inference")) =>
        \A b \in Items :
            (\A i \in TokensOf(b) : out.dr[b][i] >= 0) =>
                \A i \in TokensOf(b) :
                    /\ \A j \in FramesOf(b) :
                        out.attn[b][j][i] = (IF j \in Block(b, i) THEN 1 ELSE 0)
                    /\ TokenSum(b, i) = out.dr[b][i]

\* C1 as amended: with non-negative durations the alignment is binary and monotonic;
\* a valid token is aligned to exactly the frames of its block that lie within the
\* item's output length, hence to duration[i] frames when its block ends within
\* that length; a masked token is aligned to no frame
C1_AlignmentFollowsMaskedDurations ==
    (Returned("forward") \/ Returned("inference")) =>
        \A b \in Items :
            (\A i \in TokensOf(b) : out.dr[b][i] >= 0) =>
                /\ \A i \in TokensOf(b) : \A j \in FramesOf(b) :
                    out.attn[b][j][i] =
                        (IF i \in ValidTokens(b) /\ j \in Block(b, i) /\ j <= out.y_lengths[b]
                         THEN 1 ELSE 0)
                /\ \A i \in ValidTokens(b) :
                    CumSum(out.dr[b], i) <= out.y_lengths[b] => TokenSum(b, i) = out.dr[b][i]
                /\ \A j1 \in FramesOf(b), j2 \in FramesOf(b), i1 \in TokensOf(b), i2 \in TokensOf(b) :
                    (j1 < j2 /\ out.attn[b][j1][i1] = 1 /\ out.attn[b][j2][i2] = 1) => i1 <= i2

C1_Witness ==
    /\ Returned("forward")
    /\ call.x_lengths = <<2, 1>>
    /\ call.dr = <<<<1, 1>>, <<1, 1>>>>
    /\ call.y_lengths = <<2, 1>>
    /\ out.attn[1] = <<<<1, 0>>, <<0, 1>>>>
    /\ out.attn[2] = <<<<1, 0>>, <<0, 0>>>>

\* C2: format_durations gives every valid token (mask = 1) a duration of at least 1,
\* whatever the predicted log-duration and the length_scale
C2_ValidDurationAtLeastOne ==
    Returned("format_durations") =>
        \A b \in Items : \A i \in ValidTokens(b) : out.dr[b][i] >= 1

C2_Witness ==
    /\ Returned("format_durations")
    /\ \E b \in Items : \E i \in ValidTokens(b) :
        out.o_dr_log[b][i] = VeryNeg /\ out.dr[b][i] = 1

\* C3 as stated: in inference every frame within an item's inferred output length is
\* aligned to exactly one token, every token is aligned to as many frames as its
\* post-processed duration, and the durations sum to the output length
C3_InferenceCoversEveryFrame ==
    Returned("inference") =>
        \A b \in Items :
            /\ \A j \in 1..out.y_lengths[b] : FrameSum(b, j) = 1
            /\ \A i \in TokensOf(b) : TokenSum(b, i) = out.dr[b][i]
            /\ SumSeq(out.dr[b]) = out.y_lengths[b]

\* sum of the durations of the valid tokens of item b
ValidSum(b) == SumSeq([i \in TokensOf(b) |-> out.dr[b][i] * out.x_mask[b][i]])

\* C3 as amended: in inference the durations sum to the inferred output length; every
\* frame up to the sum of the valid tokens' durations is aligned to exactly one token
\* and every later frame to none; a valid token is aligned to as many frames as its
\* duration and a padded position to none
C3_InferenceCoversValidFrames ==
    Returned("inference") =>
        \A b \in Items :
            /\ SumSeq(out.dr[b]) = out.y_lengths[b]
            /\ \A j \in FramesOf(b) :
                FrameSum(b, j) = (IF j <= ValidSum(b) THEN 1 ELSE 0)
            /\ \A i \in ValidTokens(b) : TokenSum(b, i) = out.dr[b][i]
            /\ \A i \in PaddedTokens(b) : TokenSum(b, i) = 0

C3_Witness ==
    /\ Returned("inference")
    /\ call.x_lengths = <<2, 1>>
    /\ out.dr[1][2] = 3
    /\ FrameSum(1, ValidSum(1)) = 1
    /\ FrameSum(1, out.y_lengths[1]) = 0
    /\ TokenSum(1, 2) = 3

\* C4: the output of forward has as many frames as the largest supplied y_lengths;
\* the output of inference has as many frames as the largest sum of post-processed
\* durations of an item, and an item's frames beyond its own sum are zero
C4_OutputLength ==
    /\ Returned("forward") =>
        \A b \in Items : Len(out.o_de[b]) = MaxOf(Range(call.y_lengths))
    /\ Returned("inference") =>
        \A b \in Items :
            /\ Len(out.o_de[b]) = MaxOf({SumSeq(out.dr[c]) : c \in Items})
            /\ \A j \in DOMAIN out.o_de[b] :
                j > SumSeq(out.dr[b]) => out.o_de[b][j] = 0 /\ out.y_mask[b][j] = 0

C4_Witness ==
    /\ Returned("inference")
    /\ SumSeq(out.dr[1]) < SumSeq(out.dr[2])
    /\ Len(out.o_de[1]) = SumSeq(out.dr[2])
    /\ out.o_de[1][Len(out.o_de[1])] = 0

\* C5: a training forward whose ground-truth durations do not sum to the supplied
\* output length of an item does not return normally
C5_MismatchFails ==
    (call.op = "forward" /\ \E b \in Batch : SumSeq(call.dr[b]) # call.y_lengths[b])
        => pc # "done"

\* C6: the speaker table exists exactly when num_speakers > 1 and external_c is false;
\* with the table, the speaker vector that reaches the duration predictor and the
\* decoder is the looked-up entry scaled to norm 1; without it a supplied vector is
\* used as it is and an absent one leaves both paths without a speaker
Parallel(v, w) == v[1] * w[2] = v[2] * w[1] /\ v[1] * w[1] + v[2] * w[2] > 0

C6_SpeakerConditioning ==
    /\ cfg.emb_g <=> (cfg.num_speakers > 1 /\ ~cfg.external_c)
    /\ cfg.num_speakers = 0 => ~cfg.emb_g
    /\ (Returned("forward") \/ Returned("inference")) =>
        /\ out.dec_g = out.dp_in.g
        /\ IF cfg.emb_g
           THEN /\ call.g # None /\ out.dp_in.g # None
                /\ \A b \in Batch :
                    /\ SqNorm(out.dp_in.g[1][b]) = 25
                    /\ Parallel(out.dp_in.g[1][b], EmbG[call.g[1][b]])
           ELSE out.dp_in.g = call.g

C6_Witness ==
    /\ Returned("inference")
    /\ cfg.emb_g
    /\ SqNorm(EmbG[call.g[1][1]]) # 25
    /\ SqNorm(out.dec_g[1][1]) = 25

\* C7: the stages of a call run in this order: embedding, encoder stack (on the
\* embedding alone), speaker concatenation to the encoder output, duration predictor
\* on the detached concatenated features, expansion of the encoder output, positional
\* encoding, additive speaker conditioning, decoder
StageOrder ==
    <<"emb_g", "emb", "encoder", "concat_speaker", "duration_predictor",
      "format_durations", "expand", "pos_encoder", "sum_speaker", "decoder">>

Rank(op) == CHOOSE k \in DOMAIN StageOrder : StageOrder[k] = op

Ops(trace) == {trace[k].op : k \in DOMAIN trace}

ArgOf(trace, op) == (CHOOSE k \in DOMAIN trace : trace[k].op = op)

C7_StageOrder ==
    (Returned("forward") \/ Returned("inference")) =>
        LET t == out.trace IN
        /\ \A k \in 1..(Len(t) - 1) : Rank(t[k].op) < Rank(t[k + 1].op)
        /\ {"emb", "encoder", "duration_predictor", "expand", "decoder"} \subseteq Ops(t)
        /\ t[ArgOf(t, "encoder")].arg = "x_emb"
        /\ t[ArgOf(t, "duration_predictor")].arg = "o_en_dp.detach"
        /\ t[ArgOf(t, "expand")].arg = "o_en"
        /\ ("concat_speaker" \in Ops(t)) <=> (out.dp_in.g # None)
        /\ ("sum_speaker" \in Ops(t)) <=> (out.dec_g # None)
        /\ ("pos_encoder" \in Ops(t)) <=> cfg.pos_encoder
        /\ "concat_speaker" \in Ops(t) => t[ArgOf(t, "concat_speaker")].arg = "o_en"
        /\ "pos_encoder" \in Ops(t) => t[ArgOf(t, "pos_encoder")].arg = "o_en_ex"

C7_Witness ==
    /\ Returned("inference")
    /\ {"concat_speaker", "pos_encoder", "sum_speaker"} \subseteq Ops(out.trace)

\* C8: what forward returns as alignment and expanded features is the same whatever
\* the duration predictor outputs; in inference two predictions with the same
\* post-processed durations give the same alignment; forward returns three values
\* (features, log-durations, alignment) and inference two (features, alignment)
Replaced(p, u, v) == [b \in DOMAIN p |-> [i \in DOMAIN p[b] |-> IF p[b][i] = u THEN v ELSE p[b][i]]]

C8_AlignmentSource ==
    /\ Returned("forward") =>
        /\ out.ret = <<"o_de", "o_dr_log", "attn">>
        /\ \A p \in UniformPredictions(call.T, LogVals) :
            LET r == forward(cfg, Tokens(call.T, call.x_lengths), call.x_lengths,
                             call.y_lengths, call.dr, call.g, p)
            IN  r.attn = out.attn /\ r.o_en_ex = out.o_en_ex /\ r.o_dr_log = p
    /\ Returned("inference") =>
        /\ out.ret = <<"o_de", "attn">>
        /\ \A u \in LogVals, v \in LogVals :
            LET p == Replaced(out.o_dr_log, u, v)
            IN  (p # out.o_dr_log
                 /\ format_durations(cfg.length_scale, p, out.x_mask) = out.dr) =>
                    inference(cfg, Tokens(call.T, call.x_lengths), call.x_lengths,
                              call.g, p).attn = out.attn

C8_Witness ==
    /\ Returned("forward")
    /\ format_durations(cfg.length_scale, out.o_dr_log, out.x_mask) # call.dr
    /\ \E b \in Items : \E i \in TokensOf(b) : TokenSum(b, i) = call.dr[b][i] /\ call.dr[b][i] > 0

\* C9: inference appends exactly 5 positions of token id 0 to every sequence and
\* leaves x_lengths as they are: the mask has T+5 positions, is 1 below the item's
\* length and 0 from there on, and is 0 at each appended position
C9_InferencePadding ==
    Returned("inference") =>
        \A b \in Batch :
            /\ Len(out.x[b]) = call.T + 5
            /\ SubSeq(out.x[b], 1, call.T) = Tokens(call.T, call.x_lengths)[b]
            /\ \A k \in (call.T + 1)..(call.T + 5) : out.x[b][k] = 0 /\ out.x_mask[b][k] = 0
            /\ Len(out.x_mask[b]) = call.T + 5
            /\ \A i \in TokensOf(b) : out.x_mask[b][i] = (IF i <= call.x_lengths[b] THEN 1 ELSE 0)

C9_Witness ==
    /\ Returned("inference")
    /\ call.x_lengths[1] < call.x_lengths[2]
    /\ Len(out.x_mask[1]) = 7

\* C10: format_durations gives every padded position (mask = 0) the duration 1, so
\* the output length inference infers for an item is the sum of the durations of its
\* valid tokens plus the number of its padded positions, of which there are 5 or more
C10_PaddingCountsOneFrame ==
    Returned("inference") =>
        \A b \in Items :
            /\ \A i \in PaddedTokens(b) : out.dr[b][i] = 1
            /\ Cardinality(PaddedTokens(b)) >= 5
            /\ out.y_lengths[b] = ValidSum(b) + Cardinality(PaddedTokens(b))

C10_Witness ==
    /\ Returned("inference")
    /\ \E b \in Items : \E i \in PaddedTokens(b) :
        /\ out.o_dr_log[b][i] = 2
        /\ out.dr[b][i] = 1
        /\ Cardinality(PaddedTokens(b)) = 6
        /\ out.y_lengths[b] > 6

====
